---- MODULE Spec2Model ----
(***************************************************************************)
(* A model of ublox-sockets: the TcpSocket of src/src/tcp.rs (lifecycle     *)
(* state, poll throttling, recycling, receive path over the ring buffer)   *)
(* the UdpListener of src/src/udp_listener.rs, and the socket registry of  *)
(* spec section 4.4 (its source file is not part of src/).                 *)
(*                                                                         *)
(* Timestamps are fugit Instants; one tick is one second, and all          *)
(* timestamps of a run lie in a window far shorter than half the tick      *)
(* counter's range, where fugit's wrapping comparison is the ordinary one. *)
(***************************************************************************)
EXTENDS Integers, Sequences, FiniteSets, TLC

\* ------------------------------------------------------------ bounds
\* Capacity of the TcpSocket receive buffer (the const generic L).
L == 2
\* Timestamps handed to the timer operations are 0..MaxTime.
MaxTime == 17
\* set_available_data is called with 0..MaxAvail.
MaxAvail == 1
\* Most bytes accepted in one run of the round-trip specification.
MaxTotal == 5

\* Capacity of the UdpListener maps (the const generic N).
N == 2
\* The const generic L of UdpListener, the size parameter of its queues.
ListenerL == 3
\* Capacity of the socket registry (the N of its construction).
SetN == 2

\* ------------------------------------------------- program constants
DefaultCheckInterval == 15
DefaultReadTimeout == 15

\* -------------------------------------------------------- input sets
Bytes == {0, 1}
Addrs == {"a1"}
SocketIds == {0, 1}
Instants == 0..MaxTime
\* The receive-path specification samples the clock at one instant; the timer
\* specification ranges over Instants.
Epochs == {0}

\* Listener inputs: one socket handle more than the maps hold, two ports,
\* two remote peers (peer handle, peer address).
Handles == 0..N
Ports == {80, 81}
Peers == {<<10, "a1">>, <<11, "a2">>}
PeerAddrs == {p[2] : p \in Peers}

\* Registry inputs: one socket handle more than the registry holds, sockets
\* of both types.
SetHandles == 0..SetN
SocketTypes == {"Udp", "Tcp"}
Sockets == [handle : SetHandles, type : SocketTypes]

RECURSIVE SeqsUpTo(_)
SeqsUpTo(n) == IF n = 0 THEN {<< >>}
               ELSE LET shorter == SeqsUpTo(n - 1)
                    IN shorter \cup {Append(s, b) : s \in {t \in shorter : Len(t) = n - 1}, b \in Bytes}
\* Slices handed to rx_enqueue_slice, and the lengths of those handed to
\* recv_slice, peek and peek_slice: up to the capacity of the buffer.
MaxData == L
Slices == SeqsUpTo(MaxData)

Min(a, b) == IF a <= b THEN a ELSE b

\* Option<T> and Result<T, Error>
None == << >>
Some(x) == << x >>
Ok(x) == [ok |-> TRUE, val |-> x]
Err(e) == [ok |-> FALSE, err |-> e]
Unit == << >>

\* ------------------------------------------------------------- state
VARIABLES
    meta,             \* TcpSocket.meta: [handle]
    state,            \* TcpSocket.state
    check_interval,   \* TcpSocket.check_interval, seconds
    read_timeout,     \* TcpSocket.read_timeout, Option of seconds
    available_data,   \* TcpSocket.available_data
    rx_buffer,        \* TcpSocket.rx_buffer: [storage, read_at, length]
    last_check_time,  \* TcpSocket.last_check_time, Option of an instant
    call,             \* the last call made on the socket or listener: [op, arg, ret, out]
    fresh,            \* history: no poll has returned true since new() or the last reset()
    episode,          \* history of the polls of one uninterrupted Connected period
    accepted,         \* history: every byte rx_enqueue_slice has accepted, in order
    returned,         \* history: every byte recv_slice has returned, in order
    superseded,       \* history: the closure time the last closed_by_remote replaced
    handles,          \* UdpListener.handles
    connections,      \* UdpListener.connections
    sockets           \* the registry's table: SetN slots, each None or Some(socket)

sock == <<meta, state, check_interval, read_timeout, available_data, rx_buffer, last_check_time>>
history == <<fresh, episode, accepted, returned, superseded>>
listener == <<handles, connections>>
vars == <<meta, state, check_interval, read_timeout, available_data, rx_buffer,
          last_check_time, call, fresh, episode, accepted, returned, superseded, handles,
          connections, sockets>>

\* State<TIMER_HZ>
Created == [tag |-> "Created"]
WaitingForConnect(a) == [tag |-> "WaitingForConnect", addr |-> a]
Connected(a) == [tag |-> "Connected", addr |-> a]
ShutdownForWrite(t) == [tag |-> "ShutdownForWrite", at |-> t]

States(T) == {Created} \cup {WaitingForConnect(a) : a \in Addrs}
                 \cup {Connected(a) : a \in Addrs} \cup {ShutdownForWrite(t) : t \in T}

\* ------------------------------------------------- RingBuffer<u8, L>
RingBuffer_new == [storage |-> [i \in 1..L |-> 0], read_at |-> 0, length |-> 0]

capacity(b) == Len(b.storage)
len(b) == b.length
window(b) == capacity(b) - b.length
is_empty(b) == b.length = 0
is_full(b) == window(b) = 0
clear(b) == [b EXCEPT !.read_at = 0, !.length = 0]

\* The storage index of the idx-th element counted from the read cursor.
get_idx(b, idx) == IF capacity(b) > 0 THEN (b.read_at + idx) % capacity(b) ELSE 0

\* Free space up to the end of the storage.
contiguous_window(b) == Min(window(b), capacity(b) - get_idx(b, b.length))

\* Queued elements up to the end of the storage.
contiguous_len(b) == Min(b.length, capacity(b) - b.read_at)

\* The largest contiguous readable span.
readable_span(b) == SubSeq(b.storage, b.read_at + 1, b.read_at + contiguous_len(b))

\* One contiguous write at the write cursor, clipped to the free span.
enqueue_many(b, data) ==
    LET write_at == get_idx(b, b.length)
        size == Min(contiguous_window(b), Len(data))
    IN [buf |-> [b EXCEPT !.storage = [i \in 1..capacity(b) |->
                                         IF write_at < i /\ i <= write_at + size
                                         THEN data[i - write_at] ELSE b.storage[i]],
                          !.length = @ + size],
        size |-> size]

\* enqueue_slice: fill the span up to the storage's end, then wrap once.
enqueue_slice(b, data) ==
    LET p1 == enqueue_many(b, data)
        p2 == enqueue_many(p1.buf, SubSeq(data, p1.size + 1, Len(data)))
    IN [buf |-> p2.buf, size |-> p1.size + p2.size]

\* Drop size elements at the read cursor (size <= contiguous_len(b)).
dequeue_many(b, size) ==
    [b EXCEPT !.read_at = IF capacity(b) > 0 THEN (@ + size) % capacity(b) ELSE 0,
              !.length = @ - size]

\* dequeue_slice into a slice of n elements: the span up to the storage's
\* end, then the wrapped rest.
dequeue_slice(b, n) ==
    LET s1 == Min(n, contiguous_len(b))
        o1 == SubSeq(readable_span(b), 1, s1)
        b1 == dequeue_many(b, s1)
        s2 == Min(n - s1, contiguous_len(b1))
        o2 == SubSeq(readable_span(b1), 1, s2)
    IN [buf |-> dequeue_many(b1, s2), size |-> s1 + s2, out |-> o1 \o o2]

\* The wrapped part of the readable region, None when it does not wrap.
wrapped_span(b) ==
    LET size2 == b.length - contiguous_len(b)
    IN IF size2 # 0 THEN Some(SubSeq(b.storage, 1, size2)) ELSE None

\* Drop size elements, across the wrap (size <= b.length).
dequeue_wrapping(b, size) ==
    [b EXCEPT !.read_at = IF capacity(b) > 0 THEN (@ + size) % capacity(b) ELSE 0,
              !.length = @ - size]

\* get_allocated(offset, size): the contiguous queued span from offset on.
get_allocated(b, offset, size) ==
    LET start_at == get_idx(b, offset)
    IN IF offset > b.length THEN << >>
       ELSE LET n == Min(Min(size, b.length - offset), capacity(b) - start_at)
            IN SubSeq(b.storage, start_at + 1, start_at + n)

\* The queued elements, oldest first.
queued(b) == [i \in 1..b.length |-> b.storage[get_idx(b, i - 1) + 1]]

\* fugit's Instant::checked_duration_since, inside the comparison window.
checked_duration_since(ts, other) == IF ts >= other THEN Some(ts - other) ELSE None

\* --------------------------------------------------------- TcpSocket
handle == meta.handle

endpoint == IF state.tag \in {"Connected", "WaitingForConnect"} THEN Some(state.addr) ELSE None

\* Variant of is_connected that also counts a socket closed by the remote.
is_connected_or_closed == state.tag \in {"Connected", "ShutdownForWrite"}

is_connected == state.tag = "Connected"

\* Variant of may_recv that ignores the bytes still buffered.
may_recv_state_only == state.tag \in {"Connected", "ShutdownForWrite"}

may_recv ==
    \/ state.tag \in {"Connected", "ShutdownForWrite"}
    \/ ~is_empty(rx_buffer)

\* Variant of can_recv without the test for a full buffer.
can_recv_ignores_full == may_recv

can_recv == IF ~may_recv THEN FALSE ELSE ~is_full(rx_buffer)

rx_window == window(rx_buffer)

recv_queue == len(rx_buffer)

get_available_data == available_data

\* Variant of recycle that needs more than read_timeout to have elapsed.
recycle_strictly_later(ts) ==
    IF read_timeout # None
    THEN IF state.tag \in {"Created", "WaitingForConnect", "Connected"}
         THEN FALSE
         ELSE LET dur == checked_duration_since(ts, state.at)
              IN IF dur = None THEN FALSE ELSE dur[1] > read_timeout[1]
    ELSE FALSE

recycle(ts) ==
    IF read_timeout # None
    THEN IF state.tag \in {"Created", "WaitingForConnect", "Connected"}
         THEN FALSE
         ELSE LET dur == checked_duration_since(ts, state.at)
              IN IF dur = None THEN FALSE ELSE dur[1] >= read_timeout[1]
    ELSE FALSE

\* TcpSocket::new(socket_id)
new(socket_id) ==
    /\ meta = [handle |-> socket_id]
    /\ state = Created
    /\ rx_buffer = RingBuffer_new
    /\ available_data = 0
    /\ check_interval = DefaultCheckInterval
    /\ read_timeout = Some(DefaultReadTimeout)
    /\ last_check_time = None

update_handle(h) ==
    /\ meta' = [meta EXCEPT !.handle = h]
    /\ call' = [op |-> "update_handle", arg |-> h, ret |-> None, out |-> None]
    /\ UNCHANGED <<state, check_interval, read_timeout, available_data, rx_buffer, last_check_time>>

set_state(s) ==
    /\ state' = s
    /\ call' = [op |-> "set_state", arg |-> s, ret |-> None, out |-> None]
    /\ UNCHANGED <<meta, check_interval, read_timeout, available_data, rx_buffer, last_check_time>>

\* Variant of reset that keeps the recorded check time.
reset_keeps_timer ==
    /\ state' = Created
    /\ rx_buffer' = clear(rx_buffer)
    /\ available_data' = 0
    /\ call' = [op |-> "reset", arg |-> None, ret |-> None, out |-> None]
    /\ UNCHANGED <<meta, check_interval, read_timeout, last_check_time>>

reset ==
    /\ state' = Created
    /\ rx_buffer' = clear(rx_buffer)
    /\ available_data' = 0
    /\ last_check_time' = None
    /\ call' = [op |-> "reset", arg |-> None, ret |-> None, out |-> None]
    /\ UNCHANGED <<meta, check_interval, read_timeout>>

\* The value should_update_available_data(ts) returns.
should_update(ts) ==
    IF ~is_connected THEN FALSE
    ELSE LET dur == IF last_check_time = None THEN None
                    ELSE checked_duration_since(ts, last_check_time[1])
         IN IF dur = None THEN TRUE ELSE dur[1] >= check_interval

\* Variant of should_update_available_data that stamps ts on every poll of a
\* Connected socket, whatever it returns.
should_update_always_stamps(ts) ==
    /\ last_check_time' = IF is_connected THEN Some(ts) ELSE last_check_time
    /\ call' = [op |-> "should_update_available_data", arg |-> ts,
                ret |-> should_update(ts), out |-> None]
    /\ UNCHANGED <<meta, state, check_interval, read_timeout, available_data, rx_buffer>>

should_update_available_data(ts) ==
    /\ last_check_time' = IF should_update(ts) THEN Some(ts) ELSE last_check_time
    /\ call' = [op |-> "should_update_available_data", arg |-> ts,
                ret |-> should_update(ts), out |-> None]
    /\ UNCHANGED <<meta, state, check_interval, read_timeout, available_data, rx_buffer>>

call_recycle(ts) ==
    /\ call' = [op |-> "recycle", arg |-> ts, ret |-> recycle(ts), out |-> None]
    /\ UNCHANGED sock

\* Variant of closed_by_remote that also clears the receive buffer.
closed_by_remote_drops_buffer(ts) ==
    /\ state' = ShutdownForWrite(ts)
    /\ available_data' = 0
    /\ rx_buffer' = clear(rx_buffer)
    /\ call' = [op |-> "closed_by_remote", arg |-> ts, ret |-> None, out |-> None]
    /\ UNCHANGED <<meta, check_interval, read_timeout, last_check_time>>

\* Variant of closed_by_remote that keeps the time of the first closure of a
\* socket already ShutdownForWrite.
closed_by_remote_keeps_first_close(ts) ==
    /\ state' = IF state.tag = "ShutdownForWrite" THEN state ELSE ShutdownForWrite(ts)
    /\ available_data' = 0
    /\ call' = [op |-> "closed_by_remote", arg |-> ts, ret |-> None, out |-> None]
    /\ UNCHANGED <<meta, check_interval, read_timeout, rx_buffer, last_check_time>>

closed_by_remote(ts) ==
    /\ state' = ShutdownForWrite(ts)
    /\ available_data' = 0
    /\ call' = [op |-> "closed_by_remote", arg |-> ts, ret |-> None, out |-> None]
    /\ UNCHANGED <<meta, check_interval, read_timeout, rx_buffer, last_check_time>>

set_available_data(n) ==
    /\ available_data' = n
    /\ call' = [op |-> "set_available_data", arg |-> n, ret |-> None, out |-> None]
    /\ UNCHANGED <<meta, state, check_interval, read_timeout, rx_buffer, last_check_time>>

\* Variant of recv_impl that takes the count it dequeues off available_data.
recv_impl_drains_available(op, arg, deq) ==
    IF ~may_recv
    THEN /\ call' = [op |-> op, arg |-> arg, ret |-> Err("Illegal"), out |-> None]
         /\ UNCHANGED sock
    ELSE /\ rx_buffer' = deq.buf
         /\ available_data' = available_data - Min(available_data, deq.size)
         /\ call' = [op |-> op, arg |-> arg, ret |-> Ok(deq.size), out |-> deq.out]
         /\ UNCHANGED <<meta, state, check_interval, read_timeout, last_check_time>>

\* recv_impl: op names the caller; deq is what its closure does to the
\* buffer: [buf, size, out], the buffer it leaves, the count it dequeues and
\* the bytes it hands to the caller. The result is Ok of the count.
recv_impl(op, arg, deq) ==
    IF ~may_recv
    THEN /\ call' = [op |-> op, arg |-> arg, ret |-> Err("Illegal"), out |-> None]
         /\ UNCHANGED sock
    ELSE /\ rx_buffer' = deq.buf
         /\ call' = [op |-> op, arg |-> arg, ret |-> Ok(deq.size), out |-> deq.out]
         /\ UNCHANGED <<meta, state, check_interval, read_timeout, available_data, last_check_time>>

\* recv(f): f sees the largest contiguous span and consumes size of it.
recv(size) ==
    /\ size <= contiguous_len(rx_buffer)
    /\ recv_impl("recv", size,
                 [buf |-> dequeue_many(rx_buffer, size), size |-> size,
                  out |-> readable_span(rx_buffer)])

\* recv_wrapping(f): f sees the span up to the storage's end and, when
\* the data wraps, the rest; it consumes size of them.
recv_wrapping(size) ==
    /\ size <= len(rx_buffer)
    /\ recv_impl("recv_wrapping", size,
                 [buf |-> dequeue_wrapping(rx_buffer, size), size |-> size,
                  out |-> <<readable_span(rx_buffer), wrapped_span(rx_buffer)>>])

\* Variant of recv_slice that copies the bytes out and leaves them queued.
recv_slice_without_dequeue(n) ==
    recv_impl("recv_slice", n,
              [buf |-> rx_buffer, size |-> dequeue_slice(rx_buffer, n).size,
               out |-> dequeue_slice(rx_buffer, n).out])

\* recv_slice(data) with data.len() = n
recv_slice(n) == recv_impl("recv_slice", n, dequeue_slice(rx_buffer, n))

\* peek(size)
peek(size) ==
    /\ call' = [op |-> "peek", arg |-> size,
                ret |-> IF ~may_recv THEN Err("Illegal")
                        ELSE Ok(get_allocated(rx_buffer, 0, size)),
                out |-> None]
    /\ UNCHANGED sock

\* Variant of peek_slice that takes the bytes it copies off the buffer.
peek_slice_consumes(n) ==
    IF ~may_recv
    THEN /\ call' = [op |-> "peek_slice", arg |-> n, ret |-> Err("Illegal"), out |-> None]
         /\ UNCHANGED sock
    ELSE LET buffer == get_allocated(rx_buffer, 0, n)
         IN /\ rx_buffer' = dequeue_many(rx_buffer, Len(buffer))
            /\ call' = [op |-> "peek_slice", arg |-> n, ret |-> Ok(Len(buffer)), out |-> buffer]
            /\ UNCHANGED <<meta, state, check_interval, read_timeout, available_data,
                           last_check_time>>

\* peek_slice(data) with data.len() = n
peek_slice(n) ==
    /\ call' = IF ~may_recv
               THEN [op |-> "peek_slice", arg |-> n, ret |-> Err("Illegal"), out |-> None]
               ELSE LET buffer == get_allocated(rx_buffer, 0, n)
                    IN [op |-> "peek_slice", arg |-> n, ret |-> Ok(Len(buffer)), out |-> buffer]
    /\ UNCHANGED sock

\* Variant of rx_enqueue_slice that reports the whole slice as written.
rx_enqueue_slice_reports_len(data) ==
    LET r == enqueue_slice(rx_buffer, data)
    IN /\ rx_buffer' = r.buf
       /\ call' = [op |-> "rx_enqueue_slice", arg |-> Len(data), ret |-> Len(data), out |-> None]
       /\ UNCHANGED <<meta, state, check_interval, read_timeout, available_data, last_check_time>>

rx_enqueue_slice(data) ==
    LET r == enqueue_slice(rx_buffer, data)
    IN /\ rx_buffer' = r.buf
       /\ call' = [op |-> "rx_enqueue_slice", arg |-> Len(data), ret |-> r.size, out |-> None]
       /\ UNCHANGED <<meta, state, check_interval, read_timeout, available_data, last_check_time>>

\* ------------------------------------------------------- UdpListener
\* heapless FnvIndexMap<K, V, cap>::insert: replaces the value of a key
\* already present, fails when the map is full, adds the entry otherwise.
\* Variant of insert whose capacity test is off by one: the map takes one
\* entry more than cap.
insert_one_over_capacity(m, k, v, cap) ==
    IF k \in DOMAIN m
    THEN [map |-> [m EXCEPT ![k] = v], ret |-> Ok(Some(m[k]))]
    ELSE IF Cardinality(DOMAIN m) > cap
    THEN [map |-> m, ret |-> Err(<<k, v>>)]
    ELSE [map |-> [x \in DOMAIN m \cup {k} |-> IF x = k THEN v ELSE m[x]], ret |-> Ok(None)]

insert(m, k, v, cap) ==
    IF k \in DOMAIN m
    THEN [map |-> [m EXCEPT ![k] = v], ret |-> Ok(Some(m[k]))]
    ELSE IF Cardinality(DOMAIN m) >= cap
    THEN [map |-> m, ret |-> Err(<<k, v>>)]
    ELSE [map |-> [x \in DOMAIN m \cup {k} |-> IF x = k THEN v ELSE m[x]], ret |-> Ok(None)]

\* heapless spsc::Queue<T, L>: holds up to L - 1 elements.
Queue_new == << >>
queue_capacity == ListenerL - 1
enqueue(q, val) ==
    IF Len(q) >= queue_capacity THEN [queue |-> q, ret |-> Err(val)]
    ELSE [queue |-> Append(q, val), ret |-> Ok(Unit)]
queue_peek(q) == IF Len(q) = 0 THEN None ELSE Some(Head(q))

\* UdpListener::new()
UdpListener_new ==
    /\ handles = << >>
    /\ connections = << >>

\* Variant of bind without the check that the handle is already bound.
bind_rebinds(h, port) ==
    LET r1 == insert(handles, h, port, N)
        r2 == insert(connections, port, Queue_new, N)
    IN IF ~r1.ret.ok
       THEN /\ call' = [op |-> "bind", arg |-> <<h, port>>, ret |-> Err(Unit), out |-> None]
            /\ UNCHANGED listener
       ELSE /\ handles' = r1.map
            /\ connections' = IF r2.ret.ok THEN r2.map ELSE connections
            /\ call' = [op |-> "bind", arg |-> <<h, port>>,
                        ret |-> IF r2.ret.ok THEN Ok(Unit) ELSE Err(Unit), out |-> None]

\* Variant of bind that registers the handle and forgets the port's queue.
bind_without_queue(h, port) ==
    LET r1 == insert(handles, h, port, N)
    IN IF h \in DOMAIN handles \/ ~r1.ret.ok
       THEN /\ call' = [op |-> "bind", arg |-> <<h, port>>, ret |-> Err(Unit), out |-> None]
            /\ UNCHANGED listener
       ELSE /\ handles' = r1.map
            /\ call' = [op |-> "bind", arg |-> <<h, port>>, ret |-> Ok(Unit), out |-> None]
            /\ UNCHANGED connections

bind(h, port) ==
    LET r1 == insert(handles, h, port, N)
        r2 == insert(connections, port, Queue_new, N)
    IN IF h \in DOMAIN handles \/ ~r1.ret.ok
       THEN /\ call' = [op |-> "bind", arg |-> <<h, port>>, ret |-> Err(Unit), out |-> None]
            /\ UNCHANGED listener
       ELSE /\ handles' = r1.map
            /\ connections' = IF r2.ret.ok THEN r2.map ELSE connections
            /\ call' = [op |-> "bind", arg |-> <<h, port>>,
                        ret |-> IF r2.ret.ok THEN Ok(Unit) ELSE Err(Unit), out |-> None]

\* incoming(port), and the caller's enqueue of an arrived peer on the queue
\* it returns; ret is None when the port has no queue.
incoming(port, peer) ==
    IF port \notin DOMAIN connections
    THEN /\ call' = [op |-> "incoming", arg |-> <<port, peer>>, ret |-> None, out |-> None]
         /\ UNCHANGED listener
    ELSE LET r == enqueue(connections[port], peer)
         IN /\ connections' = [connections EXCEPT ![port] = r.queue]
            /\ call' = [op |-> "incoming", arg |-> <<port, peer>>, ret |-> Some(r.ret), out |-> None]
            /\ UNCHANGED handles

is_port_bound(port) == port \in DOMAIN connections

is_bound(h) == h \in DOMAIN handles

\* The value available(handle) returns.
available(h) ==
    IF h \notin DOMAIN handles THEN Err(Unit)
    ELSE IF handles[h] \notin DOMAIN connections THEN Err(Unit)
    ELSE Ok(Len(connections[handles[h]]) # 0)

call_available(h) ==
    /\ call' = [op |-> "available", arg |-> h, ret |-> available(h), out |-> None]
    /\ UNCHANGED listener

\* The value peek_remote(handle) returns.
peek_remote(h) ==
    IF h \notin DOMAIN handles THEN Err(Unit)
    ELSE IF handles[h] \notin DOMAIN connections THEN Err(Unit)
    ELSE LET head == queue_peek(connections[handles[h]])
         IN IF head = None THEN Err(Unit) ELSE Ok(head[1])

call_peek_remote(h) ==
    /\ call' = [op |-> "peek_remote", arg |-> h, ret |-> peek_remote(h), out |-> None]
    /\ UNCHANGED listener

get_remote(h) ==
    /\ call' = [op |-> "get_remote", arg |-> h,
                ret |-> IF h \notin DOMAIN handles THEN Err(Unit)
                        ELSE IF handles[h] \notin DOMAIN connections THEN Err(Unit)
                        ELSE LET head == queue_peek(connections[handles[h]])
                             IN IF head = None THEN Err(Unit) ELSE Ok(head[1]),
                out |-> None]
    /\ UNCHANGED listener

\* Variant of get_outgoing that takes the oldest entry with the address,
\* wherever it stands in the queue.
get_outgoing_searches_queue(h, addr) ==
    LET port == handles[h]
        queue == connections[port]
        found == /\ h \in DOMAIN handles
                 /\ port \in DOMAIN connections
                 /\ \E i \in 1..Len(queue) : queue[i][2] = addr
        at == CHOOSE i \in 1..Len(queue) :
                 queue[i][2] = addr /\ \A j \in 1..(i - 1) : queue[j][2] # addr
    IN IF found
       THEN /\ connections' = [connections EXCEPT ![port] =
                                  SubSeq(queue, 1, at - 1) \o SubSeq(queue, at + 1, Len(queue))]
            /\ call' = [op |-> "get_outgoing", arg |-> <<h, addr>>,
                        ret |-> Some(queue[at][1]), out |-> None]
            /\ UNCHANGED handles
       ELSE /\ call' = [op |-> "get_outgoing", arg |-> <<h, addr>>, ret |-> None, out |-> None]
            /\ UNCHANGED listener

get_outgoing(h, addr) ==
    LET port == handles[h]
        queue == connections[port]
        found == /\ h \in DOMAIN handles
                 /\ port \in DOMAIN connections
                 /\ queue_peek(queue) # None
                 /\ queue_peek(queue)[1][2] = addr
    IN IF found
       THEN /\ connections' = [connections EXCEPT ![port] = Tail(queue)]
            /\ call' = [op |-> "get_outgoing", arg |-> <<h, addr>>,
                        ret |-> Some(Head(queue)[1]), out |-> None]
            /\ UNCHANGED handles
       ELSE /\ call' = [op |-> "get_outgoing", arg |-> <<h, addr>>, ret |-> None, out |-> None]
            /\ UNCHANGED listener

\* ---------------------------------------------------- socket registry
\* The registry of spec section 4.4: a table of SetN optional sockets.
Set_new == sockets = [i \in 1..SetN |-> None]

\* The slots that hold the socket of handle h.
index_of(h) == {i \in DOMAIN sockets : sockets[i] # None /\ sockets[i][1].handle = h}

free_slots == {i \in DOMAIN sockets : sockets[i] = None}

\* Variant of add that puts the socket into the slot its handle occupies.
add_overwrites(socket) ==
    \/ /\ index_of(socket.handle) # {}
       /\ \E i \in index_of(socket.handle) : sockets' = [sockets EXCEPT ![i] = Some(socket)]
       /\ call' = [op |-> "add", arg |-> socket, ret |-> Ok(socket.handle), out |-> None]
    \/ /\ index_of(socket.handle) = {} /\ free_slots = {}
       /\ call' = [op |-> "add", arg |-> socket, ret |-> Err("SocketSetFull"), out |-> None]
       /\ UNCHANGED sockets
    \/ /\ index_of(socket.handle) = {} /\ free_slots # {}
       /\ \E i \in free_slots : sockets' = [sockets EXCEPT ![i] = Some(socket)]
       /\ call' = [op |-> "add", arg |-> socket, ret |-> Ok(socket.handle), out |-> None]

\* add(socket): DuplicateSocket when the handle is present, SocketSetFull when
\* no slot is free (either of the two when both hold: the order of the two
\* tests is not fixed), else the socket goes into a free slot.
add(socket) ==
    \/ /\ index_of(socket.handle) # {}
       /\ call' = [op |-> "add", arg |-> socket, ret |-> Err("DuplicateSocket"), out |-> None]
       /\ UNCHANGED sockets
    \/ /\ free_slots = {}
       /\ call' = [op |-> "add", arg |-> socket, ret |-> Err("SocketSetFull"), out |-> None]
       /\ UNCHANGED sockets
    \/ /\ index_of(socket.handle) = {} /\ free_slots # {}
       /\ \E i \in free_slots : sockets' = [sockets EXCEPT ![i] = Some(socket)]
       /\ call' = [op |-> "add", arg |-> socket, ret |-> Ok(socket.handle), out |-> None]

\* get(handle): the socket of the handle, InvalidSocket when it has none.
get(h) ==
    /\ call' = [op |-> "get", arg |-> h,
                ret |-> IF index_of(h) = {} THEN Err("InvalidSocket")
                        ELSE Ok(sockets[CHOOSE i \in index_of(h) : TRUE][1]),
                out |-> None]
    /\ UNCHANGED sockets

\* remove(handle): empties the handle's slot, InvalidSocket when it has none.
remove(h) ==
    IF index_of(h) = {}
    THEN /\ call' = [op |-> "remove", arg |-> h, ret |-> Err("InvalidSocket"), out |-> None]
         /\ UNCHANGED sockets
    ELSE /\ sockets' = [i \in DOMAIN sockets |-> IF i \in index_of(h) THEN None ELSE sockets[i]]
         /\ call' = [op |-> "remove", arg |-> h, ret |-> Ok(Unit), out |-> None]

\* ----------------------------------------------------------- history
\* fresh after the step that made call'.
FreshAfter ==
    IF call'.op = "reset" THEN TRUE
    ELSE IF call'.op = "should_update_available_data" /\ call'.ret THEN FALSE
    ELSE fresh

NoEpisode == [active |-> FALSE, last_ts |-> None, last_true |-> None]

\* episode after the step that made call': an episode starts when the socket
\* is set Connected with no recorded check time, goes on while the socket
\* stays Connected and is polled with non-decreasing timestamps, and records
\* the time of the last poll and of the last poll that returned true.
EpisodeAfter ==
    IF call'.op = "should_update_available_data"
    THEN IF episode.active /\ (episode.last_ts = None \/ call'.arg >= episode.last_ts[1])
         THEN [active |-> TRUE, last_ts |-> Some(call'.arg),
               last_true |-> IF call'.ret THEN Some(call'.arg) ELSE episode.last_true]
         ELSE NoEpisode
    ELSE IF call'.op = "set_state"
    THEN IF state'.tag # "Connected" THEN NoEpisode
         ELSE IF episode.active THEN episode
         ELSE IF last_check_time = None
              THEN [active |-> TRUE, last_ts |-> None, last_true |-> None]
              ELSE NoEpisode
    ELSE IF call'.op \in {"reset", "closed_by_remote"} THEN NoEpisode
    ELSE episode

\* superseded after the step that made call': a closed_by_remote on a socket
\* already ShutdownForWrite(t0) records t0; the record lasts until the state
\* is set again.
SupersededAfter ==
    IF call'.op = "closed_by_remote"
    THEN IF state.tag = "ShutdownForWrite" THEN Some(state.at) ELSE None
    ELSE IF call'.op \in {"set_state", "reset"} THEN None
    ELSE superseded

\* ------------------------------------------------------ specifications
NoCall == [op |-> "new", arg |-> None, ret |-> None, out |-> None]

Init ==
    /\ new(0)
    /\ call = NoCall
    /\ fresh = TRUE
    /\ episode = NoEpisode
    /\ accepted = << >>
    /\ returned = << >>
    /\ superseded = None
    /\ UdpListener_new
    /\ Set_new

\* A step of the socket alone.
OnSocket(A) ==
    A /\ fresh' = FreshAfter
      /\ UNCHANGED <<episode, accepted, returned, superseded, listener, sockets>>

\* Receive path and lifecycle: every TcpSocket operation, the clock sampled
\* at Epochs.
Next ==
    \/ \E s \in States(Epochs) : OnSocket(set_state(s))
    \/ OnSocket(reset)
    \/ \E ts \in Epochs : OnSocket(should_update_available_data(ts))
    \/ \E ts \in Epochs : OnSocket(call_recycle(ts))
    \/ \E ts \in Epochs : OnSocket(closed_by_remote(ts))
    \/ \E n \in 0..MaxAvail : OnSocket(set_available_data(n))
    \/ \E n \in 0..MaxData : OnSocket(recv(n))
    \/ \E n \in 0..MaxData : OnSocket(recv_wrapping(n))
    \/ \E n \in 0..MaxData : OnSocket(recv_slice(n))
    \/ \E n \in 0..MaxData : OnSocket(peek(n))
    \/ \E n \in 0..MaxData : OnSocket(peek_slice(n))
    \/ \E data \in Slices : OnSocket(rx_enqueue_slice(data))

Spec == Init /\ [][Next]_vars

\* A step of the socket in the timer specification.
OnTimer(A) ==
    A /\ fresh' = FreshAfter /\ episode' = EpisodeAfter
      /\ UNCHANGED <<accepted, returned, superseded, listener, sockets>>

\* Timers and lifecycle: the operations that read or write the state, the
\* handle or a timestamp, the clock ranging over Instants.
NextTimer ==
    \/ \E h \in SocketIds : OnTimer(update_handle(h))
    \/ \E s \in States(Instants) : OnTimer(set_state(s))
    \/ OnTimer(reset)
    \/ \E ts \in Instants : OnTimer(should_update_available_data(ts))
    \/ \E ts \in Instants : OnTimer(call_recycle(ts))
    \/ \E ts \in Instants : OnTimer(closed_by_remote(ts))

SpecTimer == Init /\ [][NextTimer]_vars

\* A step of the socket in the closure specification.
OnClosure(A) ==
    A /\ fresh' = FreshAfter /\ superseded' = SupersededAfter
      /\ UNCHANGED <<episode, accepted, returned, listener, sockets>>

\* Closure and recycling: the operations that write the state or read it
\* against the grace period, the clock ranging over Instants.
NextClosure ==
    \/ \E s \in States(Instants) : OnClosure(set_state(s))
    \/ OnClosure(reset)
    \/ \E ts \in Instants : OnClosure(closed_by_remote(ts))
    \/ \E ts \in Instants : OnClosure(call_recycle(ts))

SpecClosure == Init /\ [][NextClosure]_vars

\* Round trip: bytes pushed by the driver and read back by the application,
\* in any lifecycle state, until MaxTotal bytes have been offered.
NextRoundTrip ==
    \/ \E s \in States(Epochs) :
          set_state(s) /\ UNCHANGED <<history, listener, sockets>>
    \/ \E data \in Slices :
          /\ Len(accepted) + Len(data) <= MaxTotal
          /\ rx_enqueue_slice(data)
          /\ accepted' = accepted \o SubSeq(data, 1, call'.ret)
          /\ UNCHANGED <<fresh, episode, returned, superseded, listener, sockets>>
    \/ \E n \in 0..MaxData :
          /\ recv_slice(n)
          /\ returned' = returned \o (IF call'.ret.ok THEN call'.out ELSE << >>)
          /\ UNCHANGED <<fresh, episode, accepted, superseded, listener, sockets>>

SpecRoundTrip == Init /\ [][NextRoundTrip]_vars

\* A step of the listener alone.
OnListener(A) == A /\ UNCHANGED <<sock, history, sockets>>

\* The UdpListener: binds, arrivals and the application's queries.
NextListener ==
    \/ \E h \in Handles, port \in Ports : OnListener(bind(h, port))
    \/ \E port \in Ports, peer \in Peers : OnListener(incoming(port, peer))
    \/ \E h \in Handles : OnListener(call_available(h))
    \/ \E h \in Handles : OnListener(call_peek_remote(h))
    \/ \E h \in Handles : OnListener(get_remote(h))
    \/ \E h \in Handles, addr \in PeerAddrs : OnListener(get_outgoing(h, addr))

SpecListener == Init /\ [][NextListener]_vars

\* A step of the registry alone.
OnRegistry(A) == A /\ UNCHANGED <<sock, history, listener>>

\* The socket registry: sockets added, looked up and removed.
NextRegistry ==
    \/ \E socket \in Sockets : OnRegistry(add(socket))
    \/ \E h \in SetHandles : OnRegistry(get(h))
    \/ \E h \in SetHandles : OnRegistry(remove(h))

SpecRegistry == Init /\ [][NextRegistry]_vars

\* ------------------------------------------------------------- claims
RecvOps == {"recv", "recv_wrapping", "recv_slice", "peek", "peek_slice"}

\* C1: recv, recv_wrapping, recv_slice, peek and peek_slice return
\* Err(Illegal) exactly when the state is Created or WaitingForConnect and
\* the receive buffer is empty, and Ok in every other case; a call that
\* returns Err(Illegal) leaves the state, the buffer, available_data and the
\* last-check time as they were.
C1_RecvIllegalExactlyWhenClosedAndEmpty ==
    [][call'.op \in RecvOps =>
         /\ (call'.ret = Err("Illegal"))
               <=> (state.tag \in {"Created", "WaitingForConnect"} /\ recv_queue = 0)
         /\ (call'.ret # Err("Illegal")) => call'.ret.ok
         /\ (call'.ret = Err("Illegal")) =>
               UNCHANGED <<state, rx_buffer, available_data, last_check_time>>]_vars

C1_Witness ==
    /\ call.op = "peek_slice"
    /\ call.ret = Err("Illegal")
    /\ state.tag = "WaitingForConnect"
    /\ rx_buffer.storage # RingBuffer_new.storage

\* C2: recycle(now) is true exactly when the state is ShutdownForWrite(t0) and
\* now - t0 >= read_timeout (15 s): false up to t0 + 14, true from t0 + 15 on,
\* false in Created, WaitingForConnect and Connected for every now; and
\* recycle changes nothing in the socket.
C2_RecycleExactlyAfterReadTimeout ==
    [][call'.op = "recycle" =>
         /\ call'.ret = (/\ state.tag = "ShutdownForWrite"
                         /\ call'.arg - state.at >= DefaultReadTimeout)
         /\ UNCHANGED sock]_vars

C2_Witness ==
    /\ call.op = "recycle"
    /\ state.tag = "ShutdownForWrite"
    /\ call.arg = state.at + DefaultReadTimeout
    /\ call.ret = TRUE
    /\ ~recycle(call.arg - 1)

\* C3: on a socket that stays Connected and is polled with non-decreasing
\* timestamps, starting with no recorded check time, the first
\* should_update_available_data returns true, and a later one at time t
\* returns true exactly when t minus the time of the last poll that returned
\* true is >= check_interval (15 s); a poll that returns false does not move
\* the recorded check time.
C3_PollThrottling ==
    [][(/\ call'.op = "should_update_available_data"
        /\ episode.active
        /\ (episode.last_ts = None \/ call'.arg >= episode.last_ts[1])) =>
         /\ call'.ret = (\/ episode.last_true = None
                         \/ call'.arg - episode.last_true[1] >= DefaultCheckInterval)
         /\ ~call'.ret => last_check_time' = last_check_time]_vars

C3_Witness ==
    /\ call.op = "should_update_available_data"
    /\ call.ret = FALSE
    /\ episode.active
    /\ episode.last_true = Some(0)
    /\ episode.last_ts = Some(DefaultCheckInterval - 1)

\* C4: should_update_available_data(now) returns false for every now when the
\* socket is Created, WaitingForConnect or ShutdownForWrite, and then leaves
\* the last-check time and every other field unchanged.
C4_NoPollUnlessConnected ==
    [][(/\ call'.op = "should_update_available_data"
        /\ state.tag \in {"Created", "WaitingForConnect", "ShutdownForWrite"}) =>
         /\ call'.ret = FALSE
         /\ UNCHANGED sock]_vars

C4_Witness ==
    /\ call.op = "should_update_available_data"
    /\ call.ret = FALSE
    /\ state.tag = "ShutdownForWrite"
    /\ last_check_time # None
    /\ call.arg >= last_check_time[1] + DefaultCheckInterval

\* C5: reset() in any state leaves the socket Created with an empty receive
\* buffer (recv_queue = 0, rx_window = L), available_data = 0 and no recorded
\* last-check time, check_interval, read_timeout and the handle unchanged;
\* and while no poll has returned true since, a Connected socket's
\* should_update_available_data returns true whatever its timestamp.
C5_ResetClearsSocket ==
    [][/\ call'.op = "reset" =>
             /\ state' = Created
             /\ recv_queue' = 0
             /\ rx_window' = L
             /\ available_data' = 0
             /\ last_check_time' = None
             /\ UNCHANGED <<check_interval, read_timeout, meta>>
       /\ (fresh' /\ is_connected') => \A ts \in Instants : should_update(ts)']_vars

C5_Witness ==
    /\ call.op = "reset"
    /\ rx_buffer.storage # RingBuffer_new.storage
    /\ recv_queue = 0

\* C6: closed_by_remote(now) in any state sets the state to
\* ShutdownForWrite(now) and available_data to 0 and leaves the receive
\* buffer as it was; right afterwards may_recv() is true and recv_slice
\* returns the bytes buffered before the call, oldest first.
C6_ClosedByRemoteKeepsBuffer ==
    [][/\ call'.op = "closed_by_remote" =>
             /\ state' = ShutdownForWrite(call'.arg)
             /\ available_data' = 0
             /\ rx_buffer' = rx_buffer
             /\ may_recv'
       /\ (call.op = "closed_by_remote" /\ call'.op = "recv_slice") =>
             /\ call'.ret = Ok(Min(call'.arg, recv_queue))
             /\ call'.out = SubSeq(queued(rx_buffer), 1, Min(call'.arg, recv_queue))]_vars

C6_Witness ==
    /\ call.op = "closed_by_remote"
    /\ recv_queue = L
    /\ rx_buffer.read_at # 0
    /\ queued(rx_buffer)[1] # queued(rx_buffer)[L]

\* C7: over any interleaving of rx_enqueue_slice and recv_slice, the bytes
\* recv_slice has returned are a prefix of the bytes rx_enqueue_slice has
\* accepted, in the same order, however often the cursors wrap.
C7_RoundTripPrefix ==
    /\ Len(returned) <= Len(accepted)
    /\ returned = SubSeq(accepted, 1, Len(returned))

C7_Witness ==
    /\ Len(returned) > 2 * L
    /\ \E i, j \in 1..Len(returned) : returned[i] # returned[j]

\* C8: 0 <= recv_queue <= L and recv_queue + rx_window = L in every state;
\* rx_enqueue_slice(data) returns min(len(data), rx_window) and adds exactly
\* that many to recv_queue (0, and nothing changes, when the buffer is full);
\* recv_slice returns at most recv_queue and takes exactly that many off it.
C8_CapacityAndBackpressure ==
    [][/\ 0 <= recv_queue /\ recv_queue <= L
       /\ recv_queue + rx_window = L
       /\ 0 <= recv_queue' /\ recv_queue' <= L
       /\ recv_queue' + rx_window' = L
       /\ call'.op = "rx_enqueue_slice" =>
             /\ call'.ret = Min(call'.arg, rx_window)
             /\ recv_queue' = recv_queue + call'.ret
             /\ rx_window = 0 => (call'.ret = 0 /\ UNCHANGED sock)
       /\ (call'.op = "recv_slice" /\ call'.ret.ok) =>
             /\ call'.ret.val <= recv_queue
             /\ recv_queue' = recv_queue - call'.ret.val]_vars

C8_Witness ==
    /\ call.op = "rx_enqueue_slice"
    /\ call.arg > call.ret
    /\ call.ret > 0
    /\ recv_queue = L

\* C9: bind(handle, port) returns an error and leaves both maps unchanged
\* when handle is already bound; when handle is not bound and fewer than N
\* handles are bound it returns Ok, and then is_bound(handle) and
\* is_port_bound(port) are true and available(handle) is Ok(false); the port
\* recorded for a handle never changes.
C9_BindOncePerHandle ==
    [][/\ \A h \in Handles, port \in Ports :
             (call'.op = "bind" /\ call'.arg = <<h, port>>) =>
                /\ is_bound(h) => (call'.ret = Err(Unit) /\ UNCHANGED listener)
                /\ (~is_bound(h) /\ Cardinality(DOMAIN handles) < N) =>
                      /\ call'.ret = Ok(Unit)
                      /\ is_bound(h)'
                      /\ is_port_bound(port)'
                      /\ available(h)' = Ok(FALSE)
       /\ \A h \in DOMAIN handles : is_bound(h)' /\ handles'[h] = handles[h]]_vars

C9_Witness ==
    /\ call.op = "bind"
    /\ call.ret = Err(Unit)
    /\ is_bound(call.arg[1])
    /\ handles[call.arg[1]] # call.arg[2]
    /\ Cardinality(DOMAIN handles) < N

\* C10: get_remote(h) returns the oldest pending (peer handle, peer address)
\* of h's port and removes it, so that two arrivals are returned in their
\* order of arrival by two calls; it fails when no peer is pending or h is
\* not bound.
C10_GetRemoteAcceptsInFifoOrder ==
    [][call'.op = "get_remote" =>
         LET h == call'.arg
         IN IF is_bound(h) /\ Len(connections[handles[h]]) > 0
            THEN /\ call'.ret = Ok(Head(connections[handles[h]]))
                 /\ connections' = [connections EXCEPT ![handles[h]] = Tail(@)]
            ELSE call'.ret = Err(Unit) /\ UNCHANGED listener]_vars

\* C11: the pending-peer queue of a bound port holds at most L entries; an
\* arrival through incoming(port) when L peers are pending is rejected and
\* leaves the queue unchanged, and every arrival while fewer than L are
\* pending is accepted and joins the queue at its tail (so the arrival after
\* a dequeue from a full queue is accepted again).
C11_QueueDepthIsL ==
    [][\A port \in Ports, peer \in Peers :
          (call'.op = "incoming" /\ call'.arg = <<port, peer>> /\ is_port_bound(port)) =>
             /\ Len(connections[port]) <= ListenerL
             /\ IF Len(connections[port]) >= ListenerL
                THEN call'.ret = Some(Err(peer)) /\ UNCHANGED listener
                ELSE /\ call'.ret = Some(Ok(Unit))
                     /\ connections' = [connections EXCEPT ![port] = Append(@, peer)]]_vars

\* C12: bind returns Ok exactly when it registers its handle, and no other
\* operation changes the set of registered handles; every registered handle's
\* port has a queue; available(h) returns an error exactly when h is not
\* registered, and otherwise Ok(b) with b true exactly when the queue of h's
\* port is non-empty.
C12_AvailableErrExactlyWhenNeverBound ==
    [][/\ \A h \in Handles, port \in Ports :
             (call'.op = "bind" /\ call'.arg = <<h, port>>) =>
                IF call'.ret.ok
                THEN ~is_bound(h) /\ DOMAIN handles' = DOMAIN handles \cup {h}
                ELSE UNCHANGED listener
       /\ call'.op # "bind" => DOMAIN handles' = DOMAIN handles
       /\ \A h \in DOMAIN handles' : handles'[h] \in DOMAIN connections'
       /\ \A h \in Handles :
             (call'.op = "available" /\ call'.arg = h) =>
                /\ call'.ret = Err(Unit) <=> ~is_bound(h)
                /\ is_bound(h) => call'.ret = Ok(Len(connections[handles[h]]) # 0)]_vars

\* available(h) is Ok(true) on one handle and Ok(false) on another, with
\* both maps full.
C12_Witness ==
    /\ call.op = "available"
    /\ call.ret = Ok(TRUE)
    /\ Cardinality(DOMAIN handles) = N
    /\ Cardinality(DOMAIN connections) = Cardinality(Ports)
    /\ \E h \in DOMAIN handles : available(h) = Ok(FALSE)

live == {i \in DOMAIN sockets : sockets[i] # None}

\* C13: the registry holds at most N sockets and at most one per handle; add
\* with all N slots taken and the handle absent fails with SocketSetFull, add
\* with the handle present and a slot free fails with DuplicateSocket, add
\* with both fails with one of the two, and a failed add leaves every socket
\* as it was; add right after a successful remove of the same handle succeeds.
C13_RegistryUniquenessAndCapacity ==
    [][/\ Cardinality(live') <= SetN
       /\ \A i, j \in live' : sockets'[i][1].handle = sockets'[j][1].handle => i = j
       /\ \A socket \in Sockets :
             (call'.op = "add" /\ call'.arg = socket) =>
                /\ (Cardinality(live) = SetN /\ index_of(socket.handle) = {})
                      => call'.ret = Err("SocketSetFull")
                /\ (Cardinality(live) < SetN /\ index_of(socket.handle) # {})
                      => call'.ret = Err("DuplicateSocket")
                /\ (Cardinality(live) = SetN \/ index_of(socket.handle) # {})
                      => /\ call'.ret \in {Err("SocketSetFull"), Err("DuplicateSocket")}
                         /\ UNCHANGED sockets
                /\ (call.op = "remove" /\ call.ret.ok /\ call.arg = socket.handle)
                      => /\ call'.ret = Ok(socket.handle)
                         /\ \E i \in live' : sockets'[i] = Some(socket)]_vars

\* add just failed with SocketSetFull on a registry of N sockets of both types.
C13_Witness ==
    /\ call.op = "add"
    /\ call.ret = Err("SocketSetFull")
    /\ Cardinality(live) = SetN
    /\ {sockets[i][1].type : i \in live} = SocketTypes

\* C14: in every reachable state may_recv() is true exactly when the state is
\* Connected or ShutdownForWrite or the buffer is non-empty, and can_recv()
\* is may_recv() and the buffer not full; so can_recv() is false with L bytes
\* buffered whatever the state, and true on a Created or WaitingForConnect
\* socket holding at least one byte and fewer than L.
C14_CanRecvIsMayRecvAndNotFull ==
    /\ may_recv = (state.tag \in {"Connected", "ShutdownForWrite"} \/ recv_queue > 0)
    /\ can_recv = (/\ state.tag \in {"Connected", "ShutdownForWrite"} \/ recv_queue > 0
                   /\ recv_queue < L)
    /\ recv_queue = L => ~can_recv
    /\ (state.tag \in {"Created", "WaitingForConnect"} /\ 0 < recv_queue /\ recv_queue < L)
          => can_recv

\* rx_enqueue_slice has just stored a byte on a WaitingForConnect socket
\* whose buffer is not full, and can_recv() is true.
C14_Witness ==
    /\ call.op = "rx_enqueue_slice"
    /\ call.ret >= 1
    /\ state.tag = "WaitingForConnect"
    /\ recv_queue < L
    /\ can_recv

\* C15: on a Connected socket with a recorded last-check time,
\* should_update_available_data(now) returns true only if
\* now - last_check >= check_interval, whatever the order of now and the
\* recorded time, and when it returns false the recorded time is unchanged.
C15_PollTrueOnlyAfterInterval ==
    [][(/\ call'.op = "should_update_available_data"
        /\ is_connected
        /\ last_check_time # None) =>
         /\ call'.ret => call'.arg - last_check_time[1] >= check_interval
         /\ ~call'.ret => last_check_time' = last_check_time]_vars

\* The bytes a peek or peek_slice recorded in c handed to its caller.
Peeked(c) == IF c.op = "peek" THEN c.ret.val ELSE c.out

\* C16: a peek(size) or peek_slice(out) that returns Ok leaves recv_queue(),
\* rx_window(), the state and available_data as they were; the bytes it
\* returns are the oldest buffered bytes, at most min(size, recv_queue()) of
\* them (peek_slice returns their count); and a recv_slice made right after
\* it returns those same bytes first.
C16_PeekIsNonDestructive ==
    [][/\ (call'.op \in {"peek", "peek_slice"} /\ call'.ret.ok) =>
             /\ recv_queue' = recv_queue
             /\ rx_window' = rx_window
             /\ queued(rx_buffer') = queued(rx_buffer)
             /\ UNCHANGED <<state, available_data>>
             /\ Len(Peeked(call')) <= Min(call'.arg, recv_queue)
             /\ Peeked(call') = SubSeq(queued(rx_buffer), 1, Len(Peeked(call')))
             /\ call'.op = "peek_slice" => call'.ret.val = Len(call'.out)
       /\ (/\ call.op \in {"peek", "peek_slice"} /\ call.ret.ok
           /\ call'.op = "recv_slice") =>
             /\ call'.ret.ok
             /\ LET k == Min(Len(Peeked(call)), call'.arg)
                IN /\ Len(call'.out) >= k
                   /\ SubSeq(call'.out, 1, k) = SubSeq(Peeked(call), 1, k)]_vars

\* peek_slice of L bytes on a full buffer whose data wraps: it returned the
\* span up to the storage's end, fewer than the bytes buffered.
C16_Witness ==
    /\ call.op = "peek_slice"
    /\ call.ret.ok
    /\ call.arg = L
    /\ recv_queue = L
    /\ 0 < call.ret.val /\ call.ret.val < L
    /\ queued(rx_buffer)[1] # queued(rx_buffer)[L]

\* C17: get_available_data() is 0 on a new socket; set_available_data(n)
\* makes it n and changes neither the buffer nor the state; reset and
\* closed_by_remote make it 0; and no other operation (rx_enqueue_slice, recv,
\* recv_wrapping, recv_slice, peek, peek_slice, should_update_available_data,
\* set_state, recycle) changes it. So it is the argument of the most recent
\* set_available_data, or 0 after a later reset or closed_by_remote.
C17_AvailableDataDecoupled ==
    [][/\ call.op = "new" => get_available_data = 0
       /\ IF call'.op = "set_available_data"
          THEN get_available_data' = call'.arg /\ UNCHANGED <<rx_buffer, state>>
          ELSE IF call'.op \in {"reset", "closed_by_remote"}
          THEN get_available_data' = 0
          ELSE get_available_data' = get_available_data]_vars

\* recv_slice has just emptied the buffer and available_data still holds the
\* value set_available_data gave it.
C17_Witness ==
    /\ call.op = "recv_slice"
    /\ call.ret.ok
    /\ call.ret.val > 0
    /\ recv_queue = 0
    /\ get_available_data = MaxAvail

\* C18: bind(h2, port) with h2 not bound and port already bound by another
\* handle h1 returns an error, leaves h2 unbound, and leaves the port's queue
\* with all its pending (peer handle, peer address) entries in order.
C18_BindToBoundPortFails ==
    [][\A h2 \in Handles, port \in Ports :
          (/\ call'.op = "bind" /\ call'.arg = <<h2, port>>
           /\ ~is_bound(h2)
           /\ \E h1 \in DOMAIN handles : h1 # h2 /\ handles[h1] = port) =>
             /\ call'.ret = Err(Unit)
             /\ ~is_bound(h2)'
             /\ connections'[port] = connections[port]]_vars

\* C19: get_outgoing(handle, addr) returns Some(p) and removes the head
\* (p, a) of the queue of handle's port exactly when handle is bound, the
\* queue is non-empty and a = addr, the entries behind the head keeping their
\* order; in every other case, a later entry with addr included, it returns
\* None and leaves the queue unchanged.
C19_GetOutgoingTakesMatchingHead ==
    [][\A h \in Handles, addr \in PeerAddrs :
          (call'.op = "get_outgoing" /\ call'.arg = <<h, addr>>) =>
             IF /\ is_bound(h)
                /\ Len(connections[handles[h]]) > 0
                /\ Head(connections[handles[h]])[2] = addr
             THEN /\ call'.ret = Some(Head(connections[handles[h]])[1])
                  /\ connections' = [connections EXCEPT ![handles[h]] = Tail(@)]
                  /\ UNCHANGED handles
             ELSE call'.ret = None /\ UNCHANGED listener]_vars

\* get_outgoing has just returned None for an address that the second entry
\* of the queue carries and the head does not.
C19_Witness ==
    /\ call.op = "get_outgoing"
    /\ call.ret = None
    /\ is_bound(call.arg[1])
    /\ LET queue == connections[handles[call.arg[1]]]
       IN /\ Len(queue) = 2
          /\ queue[1][2] # call.arg[2]
          /\ queue[2][2] = call.arg[2]

\* C20: closed_by_remote(t1) on a socket in ShutdownForWrite(t0), t1 > t0,
\* makes the state ShutdownForWrite(t1), after which recycle(now) is false
\* for every now < t1 + read_timeout, those with now >= t0 + read_timeout
\* included; recycle is measured from the most recent closure, so a socket
\* closed again before each grace period ends is never recyclable.
C20_GraceRestartsAtLatestClosure ==
    [][/\ call'.op = "closed_by_remote" => state' = ShutdownForWrite(call'.arg)
       /\ (/\ call'.op = "closed_by_remote"
           /\ state.tag = "ShutdownForWrite"
           /\ call'.arg > state.at) =>
             \A now \in Instants : now < call'.arg + DefaultReadTimeout => ~recycle(now)'
       /\ (/\ call'.op = "recycle"
           /\ superseded # None
           /\ state.at > superseded[1]
           /\ call'.arg < state.at + DefaultReadTimeout) =>
             call'.ret = FALSE]_vars

\* recycle(now) has just returned false at or after t0 + read_timeout, t0
\* being the closure time that a later closed_by_remote replaced.
C20_Witness ==
    /\ call.op = "recycle"
    /\ call.ret = FALSE
    /\ superseded # None
    /\ state.tag = "ShutdownForWrite"
    /\ state.at > superseded[1]
    /\ call.arg >= superseded[1] + DefaultReadTimeout
    /\ call.arg < state.at + DefaultReadTimeout

\* C21: a bind(handle, port) that returns Ok leaves is_bound(handle) and
\* is_port_bound(port) true, and no bind, incoming, available, peek_remote,
\* get_remote or get_outgoing step takes a handle or a port out of the maps
\* or changes a handle's port; so the number of bound handles never
\* decreases and never exceeds N, and with N handles bound every bind of a
\* handle not yet bound fails and changes nothing.
C21_BindingsArePermanent ==
    [][/\ \A h \in DOMAIN handles :
             /\ is_bound(h)'
             /\ handles'[h] = handles[h]
             /\ handles'[h] \in DOMAIN connections'
       /\ \A port \in DOMAIN connections : is_port_bound(port)'
       /\ Cardinality(DOMAIN handles') >= Cardinality(DOMAIN handles)
       /\ Cardinality(DOMAIN handles') <= N
       /\ \A h \in Handles, port \in Ports :
             (call'.op = "bind" /\ call'.arg = <<h, port>>) =>
                /\ call'.ret.ok => (is_bound(h)' /\ is_port_bound(port)')
                /\ (~is_bound(h) /\ Cardinality(DOMAIN handles) = N) =>
                      (call'.ret = Err(Unit) /\ UNCHANGED listener)]_vars

\* bind of a handle not bound has just failed on a listener with N handles
\* bound, one port's queue full and another's empty.
C21_Witness ==
    /\ call.op = "bind"
    /\ call.ret = Err(Unit)
    /\ ~is_bound(call.arg[1])
    /\ Cardinality(DOMAIN handles) = N
    /\ \E p1, p2 \in DOMAIN connections :
          Len(connections[p1]) = queue_capacity /\ Len(connections[p2]) = 0

====
